---- MODULE Spec2Model ----
(***************************************************************************)
(* The three CRUD services of the repository (customer, order, product).   *)
(* Each service is its own FastAPI program with its own table, so a        *)
(* behaviour of this module is a run of ONE of the services: `service` is  *)
(* fixed by Init and `table` is that service's committed table.            *)
(*                                                                         *)
(* A request handler owns a SQLAlchemy session of its own.  Handlers that  *)
(* look a row up and later commit (update, delete) make two storage round  *)
(* trips, and other requests may commit between the two: such a handler is *)
(* two actions (`_query`, `_commit`).  Handlers with one round trip are    *)
(* one action.                                                             *)
(***************************************************************************)
EXTENDS Integers, Sequences, FiniteSets, TLC

VARIABLES
    service,   \* which of the three programs this run is
    table,     \* the committed rows of the service's table, in insertion order
    nextId,    \* the next value of the table's primary-key sequence
    req,       \* req[r]: the session of the r-th update or delete request
    last,      \* what the most recent handler step answered, and to which request
    deleted,   \* ids whose DELETE returned 204 and that no later create produced
    startup    \* where startup_event stands, and how it ended

vars == <<service, table, nextId, req, last, deleted, startup>>

(* ------------------------------ bounds -------------------------------- *)
MaxId == 3        \* rows a run inserts: primary keys are 1..MaxId
MaxSessions == 2  \* update and delete requests of a run that find their row;
                  \* any of them may be in flight together

Ids == 1..MaxId
Reqs == 1..MaxSessions
DefaultSkip == 0
DefaultLimit == 100

(* --------------------------- text values ------------------------------ *)
\* A string is a sequence of one-character strings.
Str(a, b) == <<a, b>>

\* lower(): what ILIKE does to both sides before comparing.
LowerChar(c) ==
    CASE c = "A" -> "a"
      [] c = "B" -> "b"
      [] c = "N" -> "n"
      [] c = "E" -> "e"
      [] c = "Q" -> "q"
      [] c = "R" -> "r"
      [] c = "T" -> "t"
      [] c = "U" -> "u"
      [] c = "X" -> "x"
      [] c = "Z" -> "z"
      [] OTHER -> c

Lower(s) == [i \in 1..Len(s) |-> LowerChar(s[i])]

\* SQL LIKE: "%" matches any run of characters, "_" any one character.
RECURSIVE Like(_, _)
Like(p, s) ==
    IF p = <<>> THEN s = <<>>
    ELSE IF Head(p) = "%"
         THEN Like(Tail(p), s) \/ (s # <<>> /\ Like(p, Tail(s)))
         ELSE /\ s # <<>>
              /\ (Head(p) = "_" \/ Head(p) = Head(s))
              /\ Like(Tail(p), Tail(s))

\* column.ilike(pattern)
ilike(col, pattern) == Like(Lower(pattern), Lower(col))

(* ----------------------------- inputs --------------------------------- *)
NoData == [k \in {} |-> 0]
NoSearch == <<>>

\* CustomerCreate payloads (the fields create_customer reads).
CustomerInputs ==
    << [email |-> Str("a", "@"), password |-> <<"p">>, first_name |-> Str("A", "n"),
        last_name |-> Str("Z", "u"), phone_number |-> <<"1">>, shipping_address |-> <<"s">>],
       [email |-> Str("b", "@"), password |-> <<"q">>, first_name |-> Str("B", "o"),
        last_name |-> Str("a", "x"), phone_number |-> <<"2">>, shipping_address |-> <<"t">>] >>

\* CustomerUpdate payloads after model_dump(exclude_unset=True): only the
\* keys the caller sent.
CustomerUpdates ==
    << NoData,
       [first_name |-> Str("X", "x")],
       [email |-> Str("b", "@"), first_name |-> Str("A", "n")] >>

\* GET /customers/ query strings: skip, limit (default 0, 100) and search.
ListQuery(skip, limit, search) == [skip |-> skip, limit |-> limit, search |-> search]

ListQueries ==
    << ListQuery(DefaultSkip, DefaultLimit, NoSearch),
       ListQuery(0, 1, NoSearch),
       ListQuery(1, 1, NoSearch),
       ListQuery(DefaultSkip, DefaultLimit, Str("z", "u")),
       ListQuery(DefaultSkip, DefaultLimit, <<"_">>) >>

\* The queries of a service without ?search=.
PlainQueries == SelectSeq(ListQueries, LAMBDA q : q.search = NoSearch)

\* OrderCreate payloads: Order(**order.model_dump()) stores them as given.
OrderInputs ==
    << [customer_id |-> 1, total_amount |-> 10],
       [customer_id |-> 2, total_amount |-> 20] >>

\* ProductCreate payloads.
ProductInputs ==
    << [name |-> <<"w">>, description |-> <<"d">>, price |-> 1, stock_quantity |-> 5],
       [name |-> <<"v">>, description |-> <<"e">>, price |-> 2, stock_quantity |-> 0] >>

\* ProductUpdate payloads after model_dump(exclude_unset=True).
ProductUpdates ==
    << NoData,
       [price |-> 3],
       [name |-> <<"v">>, price |-> 1] >>

(* ------------------------- storage helpers ---------------------------- *)
RowId(row) ==
    CASE service = "customer" -> row.customer_id
      [] service = "order" -> row.order_id
      [] OTHER -> row.product_id

IdsOf(t) == {RowId(t[i]) : i \in 1..Len(t)}

\* query.filter(pk == id).first(): the row as a list of zero or one rows.
Lookup(t, id) == SelectSeq(t, LAMBDA row : RowId(row) = id)

\* Mutant: the DELETE is never committed.
Without_uncommitted(t, id) == t

\* DELETE FROM t WHERE pk = id
Without(t, id) == SelectSeq(t, LAMBDA row : RowId(row) # id)

\* The primary key the storage generates for an inserted row: the next value
\* of the sequence, never one handed out before.  A run inserts MaxId rows.
NewIds(next) == {next} \cap Ids

\* Mutant: customers.email carries no UNIQUE constraint.
EmailTaken_unconstrained(t, email, id) == FALSE

\* The UNIQUE constraint on customers.email (case-sensitive), as seen by a
\* statement writing `email` into the row `id` (0: a new row).
EmailTaken(t, email, id) ==
    \E i \in 1..Len(t) : t[i].email = email /\ t[i].customer_id # id

\* The UNIQUE constraint on products.name, as seen by a statement writing
\* `name` into the row `id` (0: a new row).
NameTaken(t, name, id) ==
    \E i \in 1..Len(t) : t[i].name = name /\ t[i].product_id # id

\* query.offset(skip).limit(limit).all()
OffsetLimit(rows, skip, limit) ==
    SubSeq(rows, skip + 1, IF skip + limit < Len(rows) THEN skip + limit ELSE Len(rows))

\* setattr(row, key, value) for every key of the payload: the session keeps
\* the loaded value of each attribute that was set.
Loaded(row, data) == [k \in DOMAIN data |-> row[k]]

\* The columns a flush writes: the attributes set to a value that differs
\* from the loaded one.
Changed(data, old) == {k \in DOMAIN data : data[k] # old[k]}

\* The value of column k after UPDATE ... SET <changed columns> WHERE pk = id.
Written(data, old, cur, k) ==
    IF k \in Changed(data, old) THEN data[k] ELSE cur[k]

(* --------------------------- responses -------------------------------- *)
NoArg == [id |-> 0, data |-> NoData, skip |-> 0, limit |-> 0, search |-> NoSearch]
Idle == [pc |-> "idle", op |-> "none", id |-> 0, data |-> NoData, old |-> NoData]

Done == [Idle EXCEPT !.pc = "done"]

\* A run opens MaxSessions sessions, one after the other; a session answers
\* one request and is closed.
Free(r) == req[r].pc = "idle" /\ \A q \in Reqs : q < r => req[q].pc # "idle"

\* `detail` of a response the framework builds for an exception no handler
\* caught: a plain-text 500 with no JSON `detail`.
NoDetail == "<none>"

Response(op, arg, status, detail, body, rollback, fault) ==
    [op |-> op, arg |-> arg, status |-> status, detail |-> detail,
     body |-> body, rollback |-> rollback, fault |-> fault]

\* What a lookup that found its row leaves behind: no response yet.
Pending(op, arg) == Response(op, arg, 0, "", <<>>, FALSE, "none")

\* How a commit can fail for a reason that is no constraint violation.
Faults == {"none", "storage"}

(* ------------------------------ startup ------------------------------- *)
max_retries == 10

\* DISABLE_DB in the environment of the process: unset, or set to a string.
\* startup_event reads it once; the model forgets it after that read.
Unset == [set |-> FALSE, value |-> <<>>]
Env(value) == [set |-> TRUE, value |-> value]
Forgotten == Env(<<"-">>)
EnvValues ==
    {Unset, Env(<<"t", "r", "u", "e">>), Env(<<"T", "r", "u", "e">>),
     Env(<<"T", "R", "U", "E">>), Env(<<"f", "a", "l", "s", "e">>), Env(<<"1">>)}

\* os.getenv("DISABLE_DB", "false")
getenv(env) == IF env.set THEN env.value ELSE <<"f", "a", "l", "s", "e">>

\* os.getenv("DISABLE_DB", "false").lower() == "true"
DbDisabled(env) == Lower(getenv(env)) = <<"t", "r", "u", "e">>

\* What Base.metadata.create_all(bind=engine) can do: return, raise
\* OperationalError, raise anything else.
Outcomes == {"ok", "OperationalError", "Exception"}

\* pc: "begin" (process started), "attempt" (round i of the loop, before
\* create_all), "sleep" (in the OperationalError handler of round i),
\* "serving" (startup_event returned, requests are handled), "exited" (the
\* process is gone).  result: what the latest create_all did, "none" if none
\* was called.
Boot(pc, env, i, result) == [pc |-> pc, env |-> env, i |-> i, result |-> result]

\* startup_event has ended; its locals are gone.
Ended(pc, result) == Boot(pc, Forgotten, 0, result)

\* Mutant: the flag is compared without lower().
startup_event_begin_case_sensitive ==
    /\ startup.pc = "begin"
    /\ startup' = IF getenv(startup.env) = <<"t", "r", "u", "e">>
                  THEN Ended("serving", "none")
                  ELSE Boot("attempt", Forgotten, 0, "none")
    /\ UNCHANGED <<service, table, nextId, req, last, deleted>>

\* startup_event up to the loop: the flag skips the whole phase.
startup_event_begin ==
    /\ startup.pc = "begin"
    /\ startup' = IF DbDisabled(startup.env)
                  THEN Ended("serving", "none")
                  ELSE Boot("attempt", Forgotten, 0, "none")
    /\ UNCHANGED <<service, table, nextId, req, last, deleted>>

\* Mutant: `except Exception` sleeps and retries like `except OperationalError`.
startup_event_create_all_retry_any(outcome) ==
    /\ startup.pc = "attempt"
    /\ startup' = IF outcome = "ok"
                  THEN Ended("serving", "ok")
                  ELSE Boot("sleep", Forgotten, startup.i, outcome)
    /\ UNCHANGED <<service, table, nextId, req, last, deleted>>

\* Mutant: no `break` after a create_all that returned.
startup_event_create_all_no_break(outcome) ==
    /\ startup.pc = "attempt"
    /\ startup' = IF outcome = "Exception"
                  THEN Ended("exited", "Exception")
                  ELSE Boot("sleep", Forgotten, startup.i, outcome)
    /\ UNCHANGED <<service, table, nextId, req, last, deleted>>

\* One round of the loop: create_all returns (break), raises
\* OperationalError (handled: sleep, next round) or raises something else.
\* The customer service handles that with sys.exit(1); in the order and
\* product services no handler matches, the exception leaves startup_event,
\* the application's startup fails and the server stops.
startup_event_create_all(outcome) ==
    /\ startup.pc = "attempt"
    /\ startup' = CASE outcome = "ok" -> Ended("serving", "ok")
                    [] outcome = "OperationalError" ->
                          Boot("sleep", Forgotten, startup.i, "OperationalError")
                    [] OTHER -> Ended("exited", "Exception")
    /\ UNCHANGED <<service, table, nextId, req, last, deleted>>

\* Mutant: the loop has no bound.
startup_event_sleep_unbounded ==
    /\ startup.pc = "sleep"
    /\ startup' = Boot("attempt", Forgotten, (startup.i + 1) % (max_retries + 2), "none")
    /\ UNCHANGED <<service, table, nextId, req, last, deleted>>

\* Mutant: sys.exit(1) when the retries are used up.
startup_event_sleep_exit ==
    /\ startup.pc = "sleep"
    /\ startup' = IF startup.i + 1 < max_retries
                  THEN Boot("attempt", Forgotten, startup.i + 1, "none")
                  ELSE Ended("exited", "OperationalError")
    /\ UNCHANGED <<service, table, nextId, req, last, deleted>>

\* time.sleep(5), then the next round of `for i in range(max_retries)`; after
\* the last round the loop ends and startup_event returns.
startup_event_sleep ==
    /\ startup.pc = "sleep"
    /\ startup' = IF startup.i + 1 < max_retries
                  THEN Boot("attempt", Forgotten, startup.i + 1, "none")
                  ELSE Ended("serving", "OperationalError")
    /\ UNCHANGED <<service, table, nextId, req, last, deleted>>

StartupNext ==
    \/ startup_event_begin
    \/ \E outcome \in Outcomes : startup_event_create_all(outcome)
    \/ startup_event_sleep

(* ------------------------- customer service --------------------------- *)
\* Mutant: first_name and last_name stored in each other's column.
NewCustomer_swapped(id, customer) ==
    [customer_id |-> id, email |-> customer.email, password_hash |-> customer.password,
     first_name |-> customer.last_name, last_name |-> customer.first_name,
     phone_number |-> customer.phone_number,
     shipping_address |-> customer.shipping_address]

NewCustomer(id, customer) ==
    [customer_id |-> id, email |-> customer.email, password_hash |-> customer.password,
     first_name |-> customer.first_name, last_name |-> customer.last_name,
     phone_number |-> customer.phone_number,
     shipping_address |-> customer.shipping_address]

\* Mutant: the INSERT is not checked against the emails already stored.
create_customer_unchecked(customer, fault) ==
    /\ startup.pc = "serving"
    /\ service = "customer"
    /\ LET arg == [NoArg EXCEPT !.data = customer] IN
       \/ /\ fault = "storage"
          /\ last' = Response("create", arg, 500, "Could not create customer.",
                              <<>>, TRUE, fault)
          /\ UNCHANGED <<table, nextId, deleted>>
       \/ /\ fault = "none"
          /\ \E id \in NewIds(nextId) :
                LET db_customer == NewCustomer(id, customer) IN
                /\ table' = Append(table, db_customer)
                /\ deleted' = deleted \ {id}
                /\ nextId' = id + 1
                /\ last' = Response("create", arg, 201, "", <<db_customer>>, FALSE, fault)
    /\ UNCHANGED <<service, startup, req>>

\* Mutant: no `except IntegrityError`, so a duplicate email ends in the
\* generic handler.
create_customer_generic_except(customer, fault) ==
    /\ startup.pc = "serving"
    /\ service = "customer"
    /\ LET arg == [NoArg EXCEPT !.data = customer] IN
       \/ /\ fault = "storage" \/ EmailTaken(table, customer.email, 0)
          /\ last' = Response("create", arg, 500, "Could not create customer.",
                              <<>>, TRUE, fault)
          /\ UNCHANGED <<table, nextId, deleted>>
       \/ /\ fault = "none"
          /\ ~EmailTaken(table, customer.email, 0)
          /\ \E id \in NewIds(nextId) :
                LET db_customer == NewCustomer(id, customer) IN
                /\ table' = Append(table, db_customer)
                /\ deleted' = deleted \ {id}
                /\ nextId' = id + 1
                /\ last' = Response("create", arg, 201, "", <<db_customer>>, FALSE, fault)
    /\ UNCHANGED <<service, startup, req>>

create_customer(customer, fault) ==
    /\ startup.pc = "serving"
    /\ service = "customer"
    /\ LET arg == [NoArg EXCEPT !.data = customer] IN
       \/ /\ fault = "storage"
          /\ last' = Response("create", arg, 500, "Could not create customer.",
                              <<>>, TRUE, fault)
          /\ UNCHANGED <<table, nextId, deleted>>
       \/ /\ fault = "none"
          /\ EmailTaken(table, customer.email, 0)
          /\ last' = Response("create", arg, 400, "Email already registered.",
                              <<>>, TRUE, fault)
          /\ UNCHANGED <<table, nextId, deleted>>
       \/ /\ fault = "none"
          /\ ~EmailTaken(table, customer.email, 0)
          /\ \E id \in NewIds(nextId) :
                LET db_customer == NewCustomer(id, customer) IN
                /\ table' = Append(table, db_customer)
                /\ deleted' = deleted \ {id}
                /\ nextId' = id + 1
                /\ last' = Response("create", arg, 201, "", <<db_customer>>, FALSE, fault)
    /\ UNCHANGED <<service, startup, req>>

CustomerMatches(row, search) ==
    LET pattern == <<"%">> \o search \o <<"%">> IN
    \/ ilike(row.first_name, pattern)
    \/ ilike(row.last_name, pattern)
    \/ ilike(row.email, pattern)

list_customers_result(t, skip, limit, search) ==
    LET query == IF search # NoSearch
                 THEN SelectSeq(t, LAMBDA row : CustomerMatches(row, search))
                 ELSE t
    IN Response("list", [NoArg EXCEPT !.skip = skip, !.limit = limit, !.search = search],
                200, "", OffsetLimit(query, skip, limit), FALSE, "none")

list_customers(skip, limit, search) ==
    /\ startup.pc = "serving"
    /\ service = "customer"
    /\ last' = list_customers_result(table, skip, limit, search)
    /\ UNCHANGED <<service, startup, table, nextId, req, deleted>>

get_customer_result(t, customer_id) ==
    LET customer == Lookup(t, customer_id)
        arg == [NoArg EXCEPT !.id = customer_id]
    IN IF customer = <<>>
       THEN Response("get", arg, 404, "Customer not found", <<>>, FALSE, "none")
       ELSE Response("get", arg, 200, "", customer, FALSE, "none")

get_customer(customer_id) ==
    /\ startup.pc = "serving"
    /\ service = "customer"
    /\ last' = get_customer_result(table, customer_id)
    /\ UNCHANGED <<service, startup, table, nextId, req, deleted>>

update_customer_query(r, customer_id, customer_data) ==
    /\ startup.pc = "serving"
    /\ service = "customer"
    /\ Free(r)
    /\ LET db_customer == Lookup(table, customer_id) IN
       IF db_customer = <<>>
       THEN /\ last' = Response("update", [NoArg EXCEPT !.id = customer_id,
                                                         !.data = customer_data],
                                404, "Customer not found", <<>>, FALSE, "none")
            /\ UNCHANGED req
       ELSE /\ req' = [req EXCEPT ![r] = [pc |-> "loaded", op |-> "update",
                                          id |-> customer_id, data |-> customer_data,
                                          old |-> Loaded(db_customer[1], customer_data)]]
            /\ last' = Pending("update", [NoArg EXCEPT !.id = customer_id, !.data = customer_data])
    /\ UNCHANGED <<service, startup, table, nextId, deleted>>

UpdatedCustomer(data, old, cur) ==
    [customer_id |-> cur.customer_id,
     email |-> Written(data, old, cur, "email"),
     password_hash |-> Written(data, old, cur, "password_hash"),
     first_name |-> Written(data, old, cur, "first_name"),
     last_name |-> Written(data, old, cur, "last_name"),
     phone_number |-> Written(data, old, cur, "phone_number"),
     shipping_address |-> Written(data, old, cur, "shipping_address")]

update_customer_commit(r, fault) ==
    /\ startup.pc = "serving"
    /\ service = "customer"
    /\ req[r].pc = "loaded"
    /\ req[r].op = "update"
    /\ LET id == req[r].id
           update_data == req[r].data
           old == req[r].old
           arg == [NoArg EXCEPT !.id = id, !.data = update_data]
           current == Lookup(table, id)
           conflict == /\ "email" \in Changed(update_data, old)
                       /\ EmailTaken(table, update_data.email, id)
       IN
       \/ /\ \/ fault = "storage"
             \/ current = <<>>   \* the UPDATE, or the refresh, finds no row
          /\ last' = Response("update", arg, 500, "Could not update customer",
                              <<>>, TRUE, fault)
          /\ UNCHANGED table
       \/ /\ fault = "none"
          /\ current # <<>>
          /\ conflict
          /\ last' = Response("update", arg, 400, "Updated email already exists",
                              <<>>, TRUE, fault)
          /\ UNCHANGED table
       \/ /\ fault = "none"
          /\ current # <<>>
          /\ ~conflict
          /\ LET db_customer == UpdatedCustomer(update_data, old, current[1]) IN
             /\ table' = [i \in 1..Len(table) |->
                            IF table[i].customer_id = id THEN db_customer ELSE table[i]]
             /\ last' = Response("update", arg, 200, "", <<db_customer>>, FALSE, fault)
    /\ req' = [req EXCEPT ![r] = Done]
    /\ UNCHANGED <<service, startup, nextId, deleted>>

delete_customer_query(r, customer_id) ==
    /\ startup.pc = "serving"
    /\ service = "customer"
    /\ Free(r)
    /\ LET customer == Lookup(table, customer_id) IN
       IF customer = <<>>
       THEN /\ last' = Response("delete", [NoArg EXCEPT !.id = customer_id],
                                404, "Customer not found", <<>>, FALSE, "none")
            /\ UNCHANGED req
       ELSE /\ req' = [req EXCEPT ![r] = [pc |-> "loaded", op |-> "delete",
                                          id |-> customer_id, data |-> NoData,
                                          old |-> NoData]]
            /\ last' = Pending("delete", [NoArg EXCEPT !.id = customer_id])
    /\ UNCHANGED <<service, startup, table, nextId, deleted>>

\* Mutant: the DELETE is committed although the handler answers 500.
delete_customer_commit_torn(r, fault) ==
    /\ startup.pc = "serving"
    /\ service = "customer"
    /\ req[r].pc = "loaded"
    /\ req[r].op = "delete"
    /\ LET id == req[r].id
           arg == [NoArg EXCEPT !.id = id]
       IN
       \/ /\ fault = "storage"
          /\ last' = Response("delete", arg, 500, "Could not delete customer",
                              <<>>, TRUE, fault)
          /\ table' = Without(table, id)
          /\ UNCHANGED deleted
       \/ /\ fault = "none"
          /\ table' = Without(table, id)
          /\ deleted' = deleted \cup {id}
          /\ last' = Response("delete", arg, 204, "", <<>>, FALSE, fault)
    /\ req' = [req EXCEPT ![r] = Done]
    /\ UNCHANGED <<service, startup, nextId>>

delete_customer_commit(r, fault) ==
    /\ startup.pc = "serving"
    /\ service = "customer"
    /\ req[r].pc = "loaded"
    /\ req[r].op = "delete"
    /\ LET id == req[r].id
           arg == [NoArg EXCEPT !.id = id]
       IN
       \/ /\ fault = "storage"
          /\ last' = Response("delete", arg, 500, "Could not delete customer",
                              <<>>, TRUE, fault)
          /\ UNCHANGED <<table, deleted>>
       \/ /\ fault = "none"
          /\ table' = Without(table, id)
          /\ deleted' = deleted \cup {id}
          /\ last' = Response("delete", arg, 204, "", <<>>, FALSE, fault)
    /\ req' = [req EXCEPT ![r] = Done]
    /\ UNCHANGED <<service, startup, nextId>>

(* --------------------------- order service ---------------------------- *)
NewOrder(id, order) ==
    [order_id |-> id, customer_id |-> order.customer_id,
     total_amount |-> order.total_amount]

\* No try/except: a failing commit leaves create_order as an exception.
create_order(order, fault) ==
    /\ startup.pc = "serving"
    /\ service = "order"
    /\ LET arg == [NoArg EXCEPT !.data = order] IN
       \/ /\ fault = "storage"
          /\ last' = Response("create", arg, 500, NoDetail, <<>>, FALSE, fault)
          /\ UNCHANGED <<table, nextId, deleted>>
       \/ /\ fault = "none"
          /\ \E id \in NewIds(nextId) :
                LET db_order == NewOrder(id, order) IN
                /\ table' = Append(table, db_order)
                /\ deleted' = deleted \ {id}
                /\ nextId' = id + 1
                /\ last' = Response("create", arg, 201, "", <<db_order>>, FALSE, fault)
    /\ UNCHANGED <<service, startup, req>>

\* list_orders declares no skip and no limit: the request's are ignored.
list_orders_result(t, skip, limit) ==
    Response("list", [NoArg EXCEPT !.skip = skip, !.limit = limit],
             200, "", t, FALSE, "none")

list_orders(skip, limit) ==
    /\ startup.pc = "serving"
    /\ service = "order"
    /\ last' = list_orders_result(table, skip, limit)
    /\ UNCHANGED <<service, startup, table, nextId, req, deleted>>

get_order_result(t, order_id) ==
    LET order == Lookup(t, order_id)
        arg == [NoArg EXCEPT !.id = order_id]
    IN IF order = <<>>
       THEN Response("get", arg, 404, "Order not found", <<>>, FALSE, "none")
       ELSE Response("get", arg, 200, "", order, FALSE, "none")

get_order(order_id) ==
    /\ startup.pc = "serving"
    /\ service = "order"
    /\ last' = get_order_result(table, order_id)
    /\ UNCHANGED <<service, startup, table, nextId, req, deleted>>

\* Mutant: the `if not order` check is missing.
delete_order_query_unchecked(r, order_id) ==
    /\ startup.pc = "serving"
    /\ service = "order"
    /\ Free(r)
    /\ req' = [req EXCEPT ![r] = [pc |-> "loaded", op |-> "delete",
                                  id |-> order_id, data |-> NoData, old |-> NoData]]
    /\ last' = Pending("delete", [NoArg EXCEPT !.id = order_id])
    /\ UNCHANGED <<service, startup, table, nextId, deleted>>

delete_order_query(r, order_id) ==
    /\ startup.pc = "serving"
    /\ service = "order"
    /\ Free(r)
    /\ LET order == Lookup(table, order_id) IN
       IF order = <<>>
       THEN /\ last' = Response("delete", [NoArg EXCEPT !.id = order_id],
                                404, "Order not found", <<>>, FALSE, "none")
            /\ UNCHANGED req
       ELSE /\ req' = [req EXCEPT ![r] = [pc |-> "loaded", op |-> "delete",
                                          id |-> order_id, data |-> NoData,
                                          old |-> NoData]]
            /\ last' = Pending("delete", [NoArg EXCEPT !.id = order_id])
    /\ UNCHANGED <<service, startup, table, nextId, deleted>>

\* No try/except here either.
delete_order_commit(r, fault) ==
    /\ startup.pc = "serving"
    /\ service = "order"
    /\ req[r].pc = "loaded"
    /\ req[r].op = "delete"
    /\ LET id == req[r].id
           arg == [NoArg EXCEPT !.id = id]
       IN
       \/ /\ fault = "storage"
          /\ last' = Response("delete", arg, 500, NoDetail, <<>>, FALSE, fault)
          /\ UNCHANGED <<table, deleted>>
       \/ /\ fault = "none"
          /\ table' = Without(table, id)
          /\ deleted' = deleted \cup {id}
          /\ last' = Response("delete", arg, 204, "", <<>>, FALSE, fault)
    /\ req' = [req EXCEPT ![r] = Done]
    /\ UNCHANGED <<service, startup, nextId>>

(* -------------------------- product service --------------------------- *)
NewProduct(id, product) ==
    [product_id |-> id, name |-> product.name, description |-> product.description,
     price |-> product.price, stock_quantity |-> product.stock_quantity]

create_product(product, fault) ==
    /\ startup.pc = "serving"
    /\ service = "product"
    /\ LET arg == [NoArg EXCEPT !.data = product] IN
       \/ /\ fault = "storage"
          /\ last' = Response("create", arg, 500, "Could not create product",
                              <<>>, TRUE, fault)
          /\ UNCHANGED <<table, nextId, deleted>>
       \/ /\ fault = "none"
          /\ NameTaken(table, product.name, 0)
          /\ last' = Response("create", arg, 400, "Product already exists",
                              <<>>, TRUE, fault)
          /\ UNCHANGED <<table, nextId, deleted>>
       \/ /\ fault = "none"
          /\ ~NameTaken(table, product.name, 0)
          /\ \E id \in NewIds(nextId) :
                LET db_product == NewProduct(id, product) IN
                /\ table' = Append(table, db_product)
                /\ deleted' = deleted \ {id}
                /\ nextId' = id + 1
                /\ last' = Response("create", arg, 201, "", <<db_product>>, FALSE, fault)
    /\ UNCHANGED <<service, startup, req>>

list_products_result(t, skip, limit) ==
    Response("list", [NoArg EXCEPT !.skip = skip, !.limit = limit],
             200, "", OffsetLimit(t, skip, limit), FALSE, "none")

list_products(skip, limit) ==
    /\ startup.pc = "serving"
    /\ service = "product"
    /\ last' = list_products_result(table, skip, limit)
    /\ UNCHANGED <<service, startup, table, nextId, req, deleted>>

get_product_result(t, product_id) ==
    LET product == Lookup(t, product_id)
        arg == [NoArg EXCEPT !.id = product_id]
    IN IF product = <<>>
       THEN Response("get", arg, 404, "Product not found", <<>>, FALSE, "none")
       ELSE Response("get", arg, 200, "", product, FALSE, "none")

get_product(product_id) ==
    /\ startup.pc = "serving"
    /\ service = "product"
    /\ last' = get_product_result(table, product_id)
    /\ UNCHANGED <<service, startup, table, nextId, req, deleted>>

update_product_query(r, product_id, product_data) ==
    /\ startup.pc = "serving"
    /\ service = "product"
    /\ Free(r)
    /\ LET product == Lookup(table, product_id) IN
       IF product = <<>>
       THEN /\ last' = Response("update", [NoArg EXCEPT !.id = product_id,
                                                         !.data = product_data],
                                404, "Product not found", <<>>, FALSE, "none")
            /\ UNCHANGED req
       ELSE /\ req' = [req EXCEPT ![r] = [pc |-> "loaded", op |-> "update",
                                          id |-> product_id, data |-> product_data,
                                          old |-> Loaded(product[1], product_data)]]
            /\ last' = Pending("update", [NoArg EXCEPT !.id = product_id, !.data = product_data])
    /\ UNCHANGED <<service, startup, table, nextId, deleted>>

UpdatedProduct(data, old, cur) ==
    [product_id |-> cur.product_id,
     name |-> Written(data, old, cur, "name"),
     description |-> Written(data, old, cur, "description"),
     price |-> Written(data, old, cur, "price"),
     stock_quantity |-> Written(data, old, cur, "stock_quantity")]

\* One `except Exception` for every failure, IntegrityError included.
\* Mutant: an UPDATE that matches no row is no error, and the refresh is
\* skipped.
update_product_commit_unchecked(r, fault) ==
    /\ startup.pc = "serving"
    /\ service = "product"
    /\ req[r].pc = "loaded"
    /\ req[r].op = "update"
    /\ LET id == req[r].id
           update_data == req[r].data
           old == req[r].old
           arg == [NoArg EXCEPT !.id = id, !.data = update_data]
           current == Lookup(table, id)
           conflict == /\ "name" \in Changed(update_data, old)
                       /\ NameTaken(table, update_data.name, id)
       IN
       \/ /\ fault = "storage" \/ (current # <<>> /\ conflict)
          /\ last' = Response("update", arg, 500, "Could not update product",
                              <<>>, TRUE, fault)
          /\ UNCHANGED table
       \/ /\ fault = "none"
          /\ current = <<>>
          /\ last' = Response("update", arg, 200, "", <<>>, FALSE, fault)
          /\ UNCHANGED table
       \/ /\ fault = "none"
          /\ current # <<>>
          /\ ~conflict
          /\ LET product == UpdatedProduct(update_data, old, current[1]) IN
             /\ table' = [i \in 1..Len(table) |->
                            IF table[i].product_id = id THEN product ELSE table[i]]
             /\ last' = Response("update", arg, 200, "", <<product>>, FALSE, fault)
    /\ req' = [req EXCEPT ![r] = Done]
    /\ UNCHANGED <<service, startup, nextId, deleted>>

update_product_commit(r, fault) ==
    /\ startup.pc = "serving"
    /\ service = "product"
    /\ req[r].pc = "loaded"
    /\ req[r].op = "update"
    /\ LET id == req[r].id
           update_data == req[r].data
           old == req[r].old
           arg == [NoArg EXCEPT !.id = id, !.data = update_data]
           current == Lookup(table, id)
           conflict == /\ "name" \in Changed(update_data, old)
                       /\ NameTaken(table, update_data.name, id)
       IN
       \/ /\ \/ fault = "storage"
             \/ current = <<>>   \* the UPDATE, or the refresh, finds no row
             \/ conflict
          /\ last' = Response("update", arg, 500, "Could not update product",
                              <<>>, TRUE, fault)
          /\ UNCHANGED table
       \/ /\ fault = "none"
          /\ current # <<>>
          /\ ~conflict
          /\ LET product == UpdatedProduct(update_data, old, current[1]) IN
             /\ table' = [i \in 1..Len(table) |->
                            IF table[i].product_id = id THEN product ELSE table[i]]
             /\ last' = Response("update", arg, 200, "", <<product>>, FALSE, fault)
    /\ req' = [req EXCEPT ![r] = Done]
    /\ UNCHANGED <<service, startup, nextId, deleted>>

delete_product_query(r, product_id) ==
    /\ startup.pc = "serving"
    /\ service = "product"
    /\ Free(r)
    /\ LET product == Lookup(table, product_id) IN
       IF product = <<>>
       THEN /\ last' = Response("delete", [NoArg EXCEPT !.id = product_id],
                                404, "Product not found", <<>>, FALSE, "none")
            /\ UNCHANGED req
       ELSE /\ req' = [req EXCEPT ![r] = [pc |-> "loaded", op |-> "delete",
                                          id |-> product_id, data |-> NoData,
                                          old |-> NoData]]
            /\ last' = Pending("delete", [NoArg EXCEPT !.id = product_id])
    /\ UNCHANGED <<service, startup, table, nextId, deleted>>

delete_product_commit(r, fault) ==
    /\ startup.pc = "serving"
    /\ service = "product"
    /\ req[r].pc = "loaded"
    /\ req[r].op = "delete"
    /\ LET id == req[r].id
           arg == [NoArg EXCEPT !.id = id]
       IN
       \/ /\ fault = "storage"
          /\ last' = Response("delete", arg, 500, "Could not delete product",
                              <<>>, TRUE, fault)
          /\ UNCHANGED <<table, deleted>>
       \/ /\ fault = "none"
          /\ table' = Without(table, id)
          /\ deleted' = deleted \cup {id}
          /\ last' = Response("delete", arg, 204, "", <<>>, FALSE, fault)
    /\ req' = [req EXCEPT ![r] = Done]
    /\ UNCHANGED <<service, startup, nextId>>

(* --------------------------- specification ---------------------------- *)
Services == {"customer", "order", "product"}

Init ==
    /\ service \in Services
    /\ table = <<>>
    /\ nextId = 1
    /\ req = [r \in Reqs |-> Idle]
    /\ last = Response("none", NoArg, 0, "", <<>>, FALSE, "none")
    /\ deleted = {}
    /\ \E env \in EnvValues : startup = Boot("begin", env, 0, "none")

CustomerNext ==
    \/ \E i \in 1..Len(CustomerInputs), f \in Faults :
          create_customer(CustomerInputs[i], f)
    \/ \E q \in 1..Len(ListQueries) :
          list_customers(ListQueries[q].skip, ListQueries[q].limit, ListQueries[q].search)
    \/ \E id \in Ids : get_customer(id)
    \/ \E r \in Reqs, id \in Ids, u \in 1..Len(CustomerUpdates) :
          update_customer_query(r, id, CustomerUpdates[u])
    \/ \E r \in Reqs, f \in Faults : update_customer_commit(r, f)
    \/ \E r \in Reqs, id \in Ids : delete_customer_query(r, id)
    \/ \E r \in Reqs, f \in Faults : delete_customer_commit(r, f)

\* Mutant: the order service has a PUT route.
OrderNext_with_update ==
    \/ \E i \in 1..Len(OrderInputs), f \in Faults : create_order(OrderInputs[i], f)
    \/ \E q \in 1..Len(PlainQueries) :
          list_orders(PlainQueries[q].skip, PlainQueries[q].limit)
    \/ \E id \in Ids : get_order(id)
    \/ \E r \in Reqs, id \in Ids : delete_order_query(r, id)
    \/ \E r \in Reqs, f \in Faults : delete_order_commit(r, f)
    \/ \E id \in IdsOf(table) :
          /\ startup.pc = "serving"
          /\ service = "order"
          /\ table' = [i \in 1..Len(table) |->
                         IF table[i].order_id = id
                         THEN [table[i] EXCEPT !.total_amount = 0] ELSE table[i]]
          /\ last' = Response("update", [NoArg EXCEPT !.id = id], 200, "",
                              Lookup(table', id), FALSE, "none")
          /\ UNCHANGED <<service, startup, nextId, req, deleted>>

OrderNext ==
    \/ \E i \in 1..Len(OrderInputs), f \in Faults : create_order(OrderInputs[i], f)
    \/ \E q \in 1..Len(PlainQueries) :
          list_orders(PlainQueries[q].skip, PlainQueries[q].limit)
    \/ \E id \in Ids : get_order(id)
    \/ \E r \in Reqs, id \in Ids : delete_order_query(r, id)
    \/ \E r \in Reqs, f \in Faults : delete_order_commit(r, f)

ProductNext ==
    \/ \E i \in 1..Len(ProductInputs), f \in Faults :
          create_product(ProductInputs[i], f)
    \/ \E q \in 1..Len(PlainQueries) :
          list_products(PlainQueries[q].skip, PlainQueries[q].limit)
    \/ \E id \in Ids : get_product(id)
    \/ \E r \in Reqs, id \in Ids, u \in 1..Len(ProductUpdates) :
          update_product_query(r, id, ProductUpdates[u])
    \/ \E r \in Reqs, f \in Faults : update_product_commit(r, f)
    \/ \E r \in Reqs, id \in Ids : delete_product_query(r, id)
    \/ \E r \in Reqs, f \in Faults : delete_product_commit(r, f)

\* Requests are handled once startup_event has returned: every handler
\* waits for startup.pc = "serving".
Next == StartupNext \/ CustomerNext \/ OrderNext \/ ProductNext

Spec == Init /\ [][Next]_vars

\* startup_event is a coroutine the server awaits before it accepts requests:
\* it is run until it returns or the process exits.
LiveSpec == Init /\ [][Next]_vars /\ WF_vars(StartupNext)

(* ------------------------------ claims -------------------------------- *)
\* What GET /{resource}/{id} answers on table t, whichever the service.
GetResult(t, id) ==
    CASE service = "customer" -> get_customer_result(t, id)
      [] service = "order" -> get_order_result(t, id)
      [] OTHER -> get_product_result(t, id)

\* What GET /{resource}/ answers on table t to the query string q.
ListResult(t, q) ==
    CASE service = "customer" -> list_customers_result(t, q.skip, q.limit, q.search)
      [] service = "order" -> list_orders_result(t, q.skip, q.limit)
      [] OTHER -> list_products_result(t, q.skip, q.limit)

\* The step taken is the second round trip of a handler that looked a row up.
CommitStep == \E r \in Reqs : req[r].pc = "loaded" /\ req'[r].pc = "done"

\* C1: no two committed Customer rows have the same email, after any
\* interleaving of create, update and delete requests.
C1_EmailUnique ==
    service = "customer" =>
        \A i, j \in 1..Len(table) : i # j => table[i].email # table[j].email

\* Two customers exist and an update that would have duplicated an email was
\* turned down.
C1_Witness ==
    /\ service = "customer"
    /\ Len(table) = 2
    /\ last.op = "update"
    /\ last.status = 400

\* C2: when the storage itself does not fail, a create_customer whose email
\* an existing customer holds answers 400 "Email already registered." and
\* the step leaves the table as it was.
C2_DuplicateEmailRejected ==
    [][ (/\ service = "customer"
         /\ last'.op = "create"
         /\ last'.fault = "none"
         /\ EmailTaken(table, last'.arg.data.email, 0))
        => (/\ last'.status = 400
            /\ last'.detail = "Email already registered."
            /\ table' = table) ]_vars

\* A create was turned down as a duplicate while the other customer existed too.
C2_Witness ==
    /\ service = "customer"
    /\ last.op = "create"
    /\ last.status = 400
    /\ Len(table) = 2

\* The entity a create returns holds the payload's fields and an id.
InputKept(row, data) ==
    CASE service = "customer" ->
            /\ DOMAIN row = {"customer_id", "email", "password_hash", "first_name",
                             "last_name", "phone_number", "shipping_address"}
            /\ row.email = data.email
            /\ row.password_hash = data.password
            /\ row.first_name = data.first_name
            /\ row.last_name = data.last_name
            /\ row.phone_number = data.phone_number
            /\ row.shipping_address = data.shipping_address
      [] service = "order" ->
            /\ DOMAIN row = {"order_id"} \cup DOMAIN data
            /\ \A k \in DOMAIN data : row[k] = data[k]
      [] OTHER ->
            /\ DOMAIN row = {"product_id"} \cup DOMAIN data
            /\ \A k \in DOMAIN data : row[k] = data[k]

\* C3: in the state a successful create leaves, a get of the returned id
\* answers 200 with the very entity the create returned, and that entity is
\* the payload's fields plus the generated id.
C3_CreateThenGet ==
    (last.op = "create" /\ last.status = 201) =>
        /\ Len(last.body) = 1
        /\ RowId(last.body[1]) \in Ids
        /\ GetResult(table, RowId(last.body[1])).status = 200
        /\ GetResult(table, RowId(last.body[1])).body = last.body
        /\ InputKept(last.body[1], last.arg.data)

\* A create succeeded as the second row of the table.
C3_Witness ==
    /\ last.op = "create"
    /\ last.status = 201
    /\ Len(table) = 2
    /\ RowId(table[2]) = RowId(last.body[1])

\* C4: an id whose delete answered 204 is answered 404 by every get and is
\* in no list, until a create produces that id again (the sequence never does).
C4_DeletedStaysGone ==
    /\ \A id \in deleted :
          /\ GetResult(table, id).status = 404
          /\ \A q \in 1..Len(ListQueries) :
                LET rows == ListResult(table, ListQueries[q]).body IN
                \A i \in 1..Len(rows) : RowId(rows[i]) # id
    /\ (last.op = "get" /\ last.arg.id \in deleted) => last.status = 404

\* A get of a deleted id was answered while another row still exists.
C4_Witness ==
    /\ last.op = "get"
    /\ last.arg.id \in deleted
    /\ last.status = 404
    /\ table # <<>>

\* C5, as claimed: a successful update sets every field of the payload to the
\* supplied value and leaves the other fields, the id and the other rows as
\* they were when it committed.
C5_UpdateSetsExactlyPayload ==
    [][ (last'.op = "update" /\ last'.status = 200)
        => LET id == last'.arg.id
               data == last'.arg.data
               before == Lookup(table, id)
               after == Lookup(table', id)
           IN /\ Len(before) = 1
              /\ Len(after) = 1
              /\ Len(table') = Len(table)
              /\ DOMAIN after[1] = DOMAIN before[1]
              /\ \A k \in DOMAIN after[1] :
                    after[1][k] = IF k \in DOMAIN data THEN data[k] ELSE before[1][k]
              /\ \A i \in 1..Len(table) :
                    RowId(table[i]) # id => table'[i] = table[i] ]_vars

\* The rows `skip` skips and `limit` caps, in insertion order.
Page(rows, skip, limit) ==
    LET left == IF Len(rows) > skip THEN Len(rows) - skip ELSE 0
        n == IF limit < left THEN limit ELSE left
    IN [i \in 1..n |-> rows[skip + i]]

\* C6, as claimed: in each service a list without search answers the rows in
\* insertion order, without the first `skip`, at most `limit` of them.
C6_ListPages ==
    (last.op = "list" /\ last.arg.search = NoSearch)
        => last.body = Page(table, last.arg.skip, last.arg.limit)

\* x occurs in s as a run of consecutive characters.
IsSubstring(x, s) ==
    \E i \in 0..(Len(s) - Len(x)) : SubSeq(s, i + 1, i + Len(x)) = x

SearchHit(row, search) ==
    \/ IsSubstring(Lower(search), Lower(row.first_name))
    \/ IsSubstring(Lower(search), Lower(row.last_name))
    \/ IsSubstring(Lower(search), Lower(row.email))

\* C7, as claimed: a customer list with a search answers exactly the
\* customers that hold the search, case-insensitively, as a substring of
\* first_name, last_name or email.
C7_SearchIsSubstring ==
    (service = "customer" /\ last.op = "list" /\ last.arg.search # NoSearch)
        => last.body = Page(SelectSeq(table, LAMBDA row : SearchHit(row, last.arg.search)),
                            last.arg.skip, last.arg.limit)

\* C8: a get, an update or a delete whose lookup finds no row for the id
\* answers 404, and the step commits nothing: table, sessions and the
\* deleted ids stay as they were.
C8_NotFound ==
    [][ (/\ last'.op \in {"get", "update", "delete"}
         /\ ~CommitStep
         /\ last'.arg.id \notin IdsOf(table))
        => (/\ last'.status = 404
            /\ ~last'.rollback
            /\ UNCHANGED <<table, nextId, req, deleted>>) ]_vars

\* An update was answered 404 on an empty table.
C8_Witness ==
    /\ table = <<>>
    /\ last.op = "update"
    /\ last.status = 404

\* C9, as claimed: a create, update or delete whose commit fails for a reason
\* other than a uniqueness violation is rolled back by the handler, answers
\* 500 with a `detail`, and leaves the table as it was.
C9_FailureRolledBack ==
    [][ (last'.op \in {"create", "update", "delete"} /\ last'.fault = "storage")
        => (/\ last'.status = 500
            /\ last'.detail # NoDetail
            /\ last'.rollback
            /\ table' = table) ]_vars

\* The UPDATE that session r flushes writes the unique column of its row
\* with a value another row holds.
UniqueClash(r) ==
    /\ req[r].pc = "loaded"
    /\ req[r].op = "update"
    /\ Lookup(table, req[r].id) # <<>>
    /\ CASE service = "customer" ->
               /\ "email" \in Changed(req[r].data, req[r].old)
               /\ EmailTaken(table, req[r].data.email, req[r].id)
         [] service = "product" ->
               /\ "name" \in Changed(req[r].data, req[r].old)
               /\ NameTaken(table, req[r].data.name, req[r].id)
         [] OTHER -> FALSE

\* C10, as claimed: an update whose commit violates a uniqueness constraint
\* answers 400 and leaves the table as it was.
C10_UpdateConflict ==
    [][ \A r \in Reqs :
          (/\ UniqueClash(r)
           /\ req'[r].pc = "done"
           /\ last'.fault = "none")
          => (last'.status = 400 /\ table' = table) ]_vars

\* C11: an id has at most one row (it exists or it does not); an id comes
\* into existence only by a create that answers 201 with it, goes out of
\* existence only by a delete of it that answers 204, and a get, list or
\* update step leaves the set of existing ids as it was.
C11_TwoStates ==
    [][ /\ \A i, j \in 1..Len(table') :
              i # j => RowId(table'[i]) # RowId(table'[j])
        /\ \A id \in IdsOf(table') \ IdsOf(table) :
              /\ last'.op = "create"
              /\ last'.status = 201
              /\ RowId(last'.body[1]) = id
        /\ \A id \in IdsOf(table) \ IdsOf(table') :
              /\ last'.op = "delete"
              /\ last'.status = 204
              /\ last'.arg.id = id
        /\ last'.op \in {"get", "list", "update"} => IdsOf(table') = IdsOf(table) ]_vars

\* An update of an existing row committed after another id had been deleted.
C11_Witness ==
    /\ last.op = "update"
    /\ last.status = 200
    /\ deleted # {}
    /\ IdsOf(table) # {}

\* C12: in a run of the order service no step is an update, and no step
\* changes a field of an order that exists before and after it.
C12_OrderNeverUpdated ==
    [][ service = "order" =>
          /\ last'.op \in {"none", "create", "list", "get", "delete"}
          /\ \A id \in IdsOf(table) \cap IdsOf(table') :
                Lookup(table', id) = Lookup(table, id) ]_vars

\* Two orders exist after a third was deleted.
C12_Witness ==
    /\ service = "order"
    /\ Len(table) = 2
    /\ deleted # {}
    /\ last.op = "delete"
    /\ last.status = 204

\* The four ways startup can end.
Skipped == startup.pc = "serving" /\ startup.result = "none"
Initialized == startup.pc = "serving" /\ startup.result = "ok"
RetriesExhausted == startup.pc = "serving" /\ startup.result = "OperationalError"
Terminated == startup.pc = "exited"

\* C13: attempts are made in rounds 0..max_retries-1 only, one per round
\* (so at most 10); round 0 follows the flag check and every later round
\* follows a round whose attempt raised OperationalError; a successful
\* attempt ends startup for good.
C13_BoundedRetries ==
    [][ /\ startup'.pc \in {"attempt", "sleep"} => startup'.i < max_retries
        /\ (startup'.pc = "attempt" /\ startup' # startup) =>
              \/ startup.pc = "begin" /\ startup'.i = 0
              \/ /\ startup.pc = "sleep"
                 /\ startup.result = "OperationalError"
                 /\ startup'.i = startup.i + 1
        /\ (startup'.pc = "sleep" /\ startup' # startup) =>
              /\ startup.pc = "attempt"
              /\ startup'.i = startup.i
              /\ startup'.result = "OperationalError"
        /\ startup.result = "ok" => startup' = startup ]_vars

\* Nine attempts raised OperationalError and the tenth is about to be made.
C13_Witness ==
    /\ startup.pc = "attempt"
    /\ startup.i = max_retries - 1

\* C14: an attempt that raises anything but OperationalError ends the
\* process, and a process that has ended takes no step: no further attempt,
\* no request served.
C14_FatalStartupError ==
    [][ /\ (startup.pc = "attempt" /\ startup'.result = "Exception") => Terminated'
        /\ Terminated => UNCHANGED vars ]_vars

\* The order service stopped on an unexpected exception, before any request.
C14_Witness ==
    /\ service = "order"
    /\ Terminated
    /\ startup.result = "Exception"
    /\ last.op = "none"

\* C15: when the tenth attempt raised OperationalError too, startup_event
\* returns with the process alive and serving (and that is the only way to
\* end up there); a storage error met afterwards is answered 500 to the
\* request that met it, and the service keeps serving.
C15_ExhaustedStillServes ==
    [][ /\ (startup.pc = "sleep" /\ startup.i = max_retries - 1 /\ startup' # startup)
              => RetriesExhausted'
        /\ (RetriesExhausted' /\ ~RetriesExhausted)
              => (startup.pc = "sleep" /\ startup.i = max_retries - 1)
        /\ (RetriesExhausted /\ last' # last /\ last'.fault = "storage")
              => (last'.status = 500 /\ RetriesExhausted') ]_vars

\* After ten failed attempts a request met a storage error and got its 500.
C15_Witness ==
    /\ RetriesExhausted
    /\ last.status = 500
    /\ last.fault = "storage"

\* DISABLE_DB is set to "true" in some spelling of upper and lower case.
FlagIsTrue(env) ==
    /\ env.set
    /\ Len(env.value) = 4
    /\ env.value[1] \in {"t", "T"}
    /\ env.value[2] \in {"r", "R"}
    /\ env.value[3] \in {"u", "U"}
    /\ env.value[4] \in {"e", "E"}

\* C16: with the flag set startup goes straight to serving, no attempt made
\* (and serving without an attempt happens in no other way); otherwise
\* startup enters round 0, and the step that leaves a round is an attempt.
C16_FlagSkipsStartup ==
    [][ /\ (startup.pc = "begin" /\ startup' # startup) =>
              IF FlagIsTrue(startup.env)
              THEN Skipped'
              ELSE startup'.pc = "attempt" /\ startup'.i = 0 /\ startup'.result = "none"
        /\ (Skipped' /\ ~Skipped) => (startup.pc = "begin" /\ FlagIsTrue(startup.env))
        /\ (startup.pc = "attempt" /\ startup' # startup) => startup'.result \in Outcomes ]_vars

\* Startup was skipped and a create was served.
C16_Witness ==
    /\ Skipped
    /\ last.op = "create"
    /\ last.status = 201

\* C17, as claimed: an update that commits right after another update of the
\* same row committed, and that had looked the row up before, succeeds
\* (unless it clashes with another row); afterwards every field of its
\* payload holds its value, and every field only the earlier payload set
\* holds the earlier value.
C17_LastCommitterWins ==
    [][ \A r \in Reqs :
          (/\ req[r].pc = "loaded"
           /\ req[r].op = "update"
           /\ req'[r].pc = "done"
           /\ last.op = "update"
           /\ last.status = 200
           /\ last.arg.id = req[r].id
           /\ last'.fault = "none"
           /\ ~UniqueClash(r))
          => /\ last'.status = 200
             /\ LET row == Lookup(table', req[r].id)[1] IN
                /\ \A k \in DOMAIN req[r].data : row[k] = req[r].data[k]
                /\ \A k \in DOMAIN last.arg.data \ DOMAIN req[r].data :
                      row[k] = last.arg.data[k] ]_vars

\* The number of customers that hold an email.
WithEmail(t, email) == Cardinality({i \in 1..Len(t) : t[i].email = email})

\* C18: of two create_customer requests with the same email, committed one
\* after the other in either order with no storage failure, the first finds
\* the email free and answers 201, the second answers 400, and one row
\* holds the email afterwards.
C18_ConcurrentCreates ==
    [][ (/\ service = "customer"
         /\ last'.op = "create"
         /\ last'.fault = "none")
        => LET email == last'.arg.data.email IN
           /\ WithEmail(table, email) = 0 =>
                 (last'.status = 201 /\ WithEmail(table', email) = 1)
           /\ (/\ last.op = "create"
               /\ last.status = 201
               /\ last.arg.data.email = email) =>
                 /\ last'.status = 400
                 /\ WithEmail(table', email) = 1
                 /\ Lookup(table', RowId(last.body[1])) = last.body ]_vars

\* The second of two creates with one email was turned down; the first one's
\* row is the only row.
C18_Witness ==
    /\ service = "customer"
    /\ last.op = "create"
    /\ last.status = 400
    /\ Len(table) = 1
    /\ WithEmail(table, last.arg.data.email) = 1

\* C19: an update that looked its row up and commits after a delete of the
\* row committed answers 404 or 500, and leaves the table as it is: the id
\* stays absent, no row carries the update's values.
C19_UpdateAfterDelete ==
    [][ \A r \in Reqs :
          (/\ req[r].pc = "loaded"
           /\ req[r].op = "update"
           /\ req'[r].pc = "done"
           /\ req[r].id \in deleted)
          => /\ last'.op = "update"
             /\ last'.status \in {404, 500}
             /\ last'.body = <<>>
             /\ table' = table
             /\ req[r].id \notin IdsOf(table')
             /\ req[r].id \in deleted' ]_vars

\* With no storage failure, an update was answered 500 because its row had
\* been deleted since it looked it up; another row is still there.
C19_Witness ==
    /\ last.op = "update"
    /\ last.status = 500
    /\ last.fault = "none"
    /\ last.arg.id \in deleted
    /\ table # <<>>

\* C20: startup ends, whatever the flag and whatever each attempt does.
C20_StartupEnds == <>(Skipped \/ Initialized \/ RetriesExhausted \/ Terminated)

\* Startup ended the longest way, and nothing has been served yet.
C20_Witness ==
    /\ RetriesExhausted
    /\ last.op = "none"

====
